---------------------------- MODULE Spec2Model ----------------------------
(***************************************************************************)
(* Sudoku: the Grid/Field model (src/src/grid.py), the backtracking        *)
(* generator (src/src/grid_generation.py), the backtracking solver         *)
(* (src/src/solver.py) and the demo pipeline generate -> empty_values ->   *)
(* solve (src/main.py).                                                    *)
(*                                                                         *)
(* Field objects live in a heap; a Grid is a tuple of references to them,  *)
(* so that copying a grid, and writing through a reference, are what they  *)
(* are in the program.                                                     *)
(***************************************************************************)
EXTENDS Integers, Sequences, FiniteSets, TLC

VARIABLES
    heap,                 \* the Field objects: a reference is an index into heap
    generated,            \* main.py `grid`: the grid generate() returned (None before)
    emptied,              \* main.py `emptied_grid`: the grid empty_values() returned
    solved,               \* the grid solve() returned (None before)
    grid,                 \* the local `grid` of the running method
    stack,                \* the active frames of __backtrack / __fill_grid
    pc,                   \* position of the program
    num_of_empty_values,  \* GridGenerator.__empty_values
    remaining,            \* iterations the loop of empty_values still has to run
    before,               \* history: the cell values of the argument when the method was called
    writes,               \* history: number of Field.value assignments made by the search
    entered,              \* history: for each frame of stack, the cell values at its entry
                          \* and the values it has assigned to its field
    args,                 \* the arguments of the call of a method of Grid or of a constructor
    result                \* what that call returned

vars == << heap, generated, emptied, solved, grid, stack, pc,
           num_of_empty_values, remaining, before, writes, entered, args, result >>

-----------------------------------------------------------------------------
(* Program constants *)

\* range(9): the coordinates of both axes
Size == 9

\* the side of a small square
Box == 3

\* the number of fields of a Grid
Cells == 81

\* the largest value of a Field; 0 is the empty field
MaxValue == 9

\* Python's None
None == << >>

-----------------------------------------------------------------------------
(* Bounds of the model *)

\* the largest number of cells of BaseBoard that an input board has emptied
MaxEmpty == 4

\* the largest number of cells of BaseBoard that an input board has overwritten
MaxOver == 1

\* the largest number of cells, the last of the traversal, that the search of
\* generate has still to fill in the states it is started from
MaxFill == 23

\* the largest num_of_empty_values of a generator whose empty_values is
\* called on a board a caller hands in
MaxK == 2

\* in the round trip generate -> empty_values -> solve of a caller: the
\* largest number of cells the search of generate has still to fill in the
\* states the round trip is started from
MaxPipeFill == 15

\* the largest num_of_empty_values of the generator of a round trip started
\* in the search of generate
MaxPipeK == 1

\* the largest number of iterations the loop of empty_values has still to
\* run in the states main.py is started from
MaxLeft == 0

\* main.py line 5: `generator = BacktrackingGenerator(45)`
MainCount == 45

-----------------------------------------------------------------------------
(* Field *)

\* Field.__init__
Field(x, y, value) == [x |-> x, y |-> y, value |-> value]

\* Field.is_empty
is_empty(f) == f.value = 0

\* Field.copy that leaves the value out
field_copy_empty(f) == Field(f.x, f.y, 0)

\* Field.copy
field_copy(f) == Field(f.x, f.y, f.value)

\* the assertion of the Field.value setter:
\* `assert new_value in self.__AVAILABLE_VALUES`
value_assertion(new_value) == new_value \in 0..MaxValue

\* Field.value setter, through the reference r: the heap after the
\* assignment; when the assertion fails the setter raises AssertionError
\* before it assigns, and the field keeps its value
set_value(h, r, new_value) ==
    IF value_assertion(new_value) THEN [h EXCEPT ![r].value = new_value] ELSE h

-----------------------------------------------------------------------------
(* Grid: g is the tuple of references Grid.__fields; h is the heap *)

\* Grid.empty_fields
empty_fields(h, g) == SelectSeq(g, LAMBDA r : is_empty(h[r]))

\* filled_fields that keeps every field of the grid
filled_fields_all(h, g) == g

\* Grid.filled_fields
filled_fields(h, g) == SelectSeq(g, LAMBDA r : ~is_empty(h[r]))

\* Grid.field: the field of the tuple with the coordinates; Grid.__init__ lets
\* no two fields of a grid share their coordinates, so the first match of the
\* loop is the only one
field(h, g, x, y) ==
    g[CHOOSE i \in 1..Len(g) : h[g[i]].x = x /\ h[g[i]].y = y]

\* Grid.column
column(h, g, x) == SelectSeq(g, LAMBDA r : h[r].x = x)

\* Grid.row
row(h, g, y) == SelectSeq(g, LAMBDA r : h[r].y = y)

\* Grid.small_square
small_square(h, g, x, y) ==
    LET base_x == (x \div Box) * Box
        base_y == (y \div Box) * Box
    IN  [k \in 1..(Box * Box) |->
            field(h, g, base_x + ((k - 1) \div Box), base_y + ((k - 1) % Box))]

\* `value not in [f.value for f in fs]`
NotIn(h, value, fs) == \A i \in 1..Len(fs) : h[fs[i]].value # value

\* can_be_in_row that compares with the whole row, the field (x, y) included
can_be_in_row_with_self(h, g, value, x, y) == NotIn(h, value, row(h, g, y))

\* Grid.can_be_in_row
can_be_in_row(h, g, value, x, y) ==
    LET row_without_x == SelectSeq(row(h, g, y), LAMBDA r : h[r].x # x)
    IN  NotIn(h, value, row_without_x)

\* can_be_in_column with the fields of the column filtered by x, as
\* can_be_in_row filters them
can_be_in_column_by_x(h, g, value, x, y) ==
    LET col_without_y == SelectSeq(column(h, g, x), LAMBDA r : h[r].x # x)
    IN  NotIn(h, value, col_without_y)

\* Grid.can_be_in_column
can_be_in_column(h, g, value, x, y) ==
    LET col_without_y == SelectSeq(column(h, g, x), LAMBDA r : h[r].y # y)
    IN  NotIn(h, value, col_without_y)

\* Grid.can_be_in_small_square
can_be_in_small_square(h, g, value, x, y) ==
    LET square == SelectSeq(small_square(h, g, x, y),
                            LAMBDA r : h[r].y # y /\ h[r].x # x)
    IN  NotIn(h, value, square)

\* can_be_at without the rule of the small square
can_be_at_row_column(h, g, value, x, y) ==
    /\ can_be_in_row(h, g, value, x, y)
    /\ can_be_in_column(h, g, value, x, y)

\* Grid.can_be_at
can_be_at(h, g, value, x, y) ==
    /\ can_be_in_row(h, g, value, x, y)
    /\ can_be_in_column(h, g, value, x, y)
    /\ can_be_in_small_square(h, g, value, x, y)

\* Grid.is_complete
is_complete(h, g) == Len(empty_fields(h, g)) = 0

\* is_consistent that returns after its first filled field
is_consistent_first_only(h, g) ==
    LET ff == filled_fields(h, g)
    IN  \A i \in 1..Len(ff) :
            i = 1 => can_be_at(h, g, h[ff[i]].value, h[ff[i]].x, h[ff[i]].y)

\* Grid.is_consistent
is_consistent(h, g) ==
    LET ff == filled_fields(h, g)
    IN  \A i \in 1..Len(ff) : can_be_at(h, g, h[ff[i]].value, h[ff[i]].x, h[ff[i]].y)

\* Grid.is_solved
is_solved(h, g) == is_complete(h, g) /\ is_consistent(h, g)

\* Grid.copy: the heap with a copy of every field of g appended
copy_heap(h, g) == h \o [i \in 1..Len(g) |-> field_copy(h[g[i]])]

\* a copy that is the grid itself
copy_grid_alias(h, g) == g

\* Grid.copy: the tuple of references of the copy
copy_grid(h, g) == [i \in 1..Len(g) |-> Len(h) + i]

\* GridGenerator.empty_grid: the fields, x in the outer loop and y in the inner
empty_fields_list == [k \in 1..Cells |-> Field((k - 1) \div Size, (k - 1) % Size, 0)]

\* possible_values with the test of can_be_at inverted
possible_values_inverted(h, g, x, y) ==
    SelectSeq([v \in 1..MaxValue |-> v], LAMBDA v : ~can_be_at(h, g, v, x, y))

\* GridGenerator.possible_values
possible_values(h, g, x, y) ==
    SelectSeq([v \in 1..MaxValue |-> v], LAMBDA v : can_be_at(h, g, v, x, y))

\* the scan that keeps the last empty field it meets
first_empty_last(h, g) ==
    LET E == {k \in 0..(Cells - 1) : is_empty(h[field(h, g, k \div Size, k % Size)])}
    IN  IF E = {} THEN -1 ELSE CHOOSE k \in E : \A j \in E : k >= j

\* the scan with `for x in range(8)`: the fields of the last x are left out
first_empty_short_scan(h, g) ==
    LET E == {k \in 0..(Cells - Size - 1) : is_empty(h[field(h, g, k \div Size, k % Size)])}
    IN  IF E = {} THEN -1 ELSE CHOOSE k \in E : \A j \in E : k <= j

\* the scan with the test of is_empty inverted: the first filled field
first_filled(h, g) ==
    LET E == {k \in 0..(Cells - 1) : ~is_empty(h[field(h, g, k \div Size, k % Size)])}
    IN  IF E = {} THEN -1 ELSE CHOOSE k \in E : \A j \in E : k <= j

\* The scan `for x in range(9): for y in range(9)` of __backtrack and
\* __fill_grid: the position k = 9x + y of the first empty field, -1 if none
first_empty(h, g) ==
    LET E == {k \in 0..(Cells - 1) : is_empty(h[field(h, g, k \div Size, k % Size)])}
    IN  IF E = {} THEN -1 ELSE CHOOSE k \in E : \A j \in E : k <= j

\* the cell values of a grid, in the order of its tuple
values_of(h, g) == [i \in 1..Len(g) |-> h[g[i]].value]

-----------------------------------------------------------------------------
(* The boards a caller hands to solve and to empty_values *)

\* a complete consistent board, as generate() returns it: the values of the
\* fields (x, y) in the order x = 0..8 outer, y = 0..8 inner
BaseBoard ==
    << 2, 1, 3, 4, 5, 6, 7, 8, 9,   4, 5, 6, 7, 8, 9, 1, 2, 3,
       7, 8, 9, 1, 2, 3, 4, 5, 6,   1, 2, 4, 3, 6, 5, 8, 9, 7,
       3, 6, 5, 8, 9, 7, 2, 1, 4,   8, 9, 7, 2, 1, 4, 3, 6, 5,
       5, 3, 1, 6, 4, 2, 9, 7, 8,   6, 4, 2, 9, 7, 8, 5, 3, 1,
       9, 7, 8, 5, 3, 1, 6, 4, 2 >>

\* the position in the tuple of the field (x, y) of a grid built in that order
Pos(x, y) == Size * x + y + 1

\* BaseBoard with the values 5 and 6 of the cells (1,1), (1,2), (4,1) and
\* (4,2) exchanged: another complete consistent board
SwappedBoard ==
    [BaseBoard EXCEPT ![Pos(1, 1)] = 6, ![Pos(1, 2)] = 5,
                      ![Pos(4, 1)] = 5, ![Pos(4, 2)] = 6]

\* the cells in which the input boards differ from BaseBoard
PoolCells == {Pos(0, 0), Pos(0, 5), Pos(1, 1), Pos(1, 2), Pos(4, 1), Pos(4, 2)}

\* the values an input board has overwritten a cell with
OverValues == {5, 6}

\* BaseBoard with the cells E emptied and the cells of O overwritten
Patched(E, O) ==
    [i \in 1..Cells |->
        IF i \in DOMAIN O THEN O[i] ELSE IF i \in E THEN 0 ELSE BaseBoard[i]]

\* the all-empty board
EmptyBoard == [i \in 1..Cells |-> 0]

\* the input boards: consistent and inconsistent, complete and partial,
\* solvable and unsolvable
InputBoards ==
    {EmptyBoard} \cup
    { Patched(E, O) :
        E \in {S \in SUBSET PoolCells : Cardinality(S) <= MaxEmpty},
        O \in UNION { [D -> OverValues] :
                        D \in {S \in SUBSET PoolCells : Cardinality(S) <= MaxOver} } }

\* the Field objects of a caller's board with the values b
board_fields(b) ==
    [i \in 1..Cells |-> Field((i - 1) \div Size, (i - 1) % Size, b[i])]

-----------------------------------------------------------------------------
(* BacktrackingSolver *)

\* a frame whose loop starts at range(2, 10)
BacktrackFrame_from_two(x, y, current_field) ==
    [x |-> x, y |-> y, field |-> current_field, value |-> 1]

\* a frame of __backtrack that has found its empty field: the loop variables
\* x and y, current_field, and value (0 before the first iteration)
BacktrackFrame(x, y, current_field) ==
    [x |-> x, y |-> y, field |-> current_field, value |-> 0]

Top == stack[Len(stack)]

\* history of a frame that is entered with the cell values board
Entry(board) == [board |-> board, tried |-> << >>]

\* history: the top frame has assigned value to its field
Tried(value) == [entered EXCEPT ![Len(entered)].tried = Append(@, value)]

Pop == SubSeq(stack, 1, Len(stack) - 1)

\* solve, up to the call of __backtrack: `grid = grid.copy`
solve_call ==
    /\ pc = "solve"
    /\ emptied # None
    /\ before' = values_of(heap, emptied)
    /\ heap' = copy_heap(heap, emptied)
    /\ grid' = copy_grid(heap, emptied)
    /\ stack' = << >>
    /\ entered' = << >>
    /\ writes' = 0
    /\ pc' = "backtrack"
    /\ UNCHANGED << generated, emptied, solved, num_of_empty_values, remaining,
                    args, result >>

\* __backtrack, from its entry to its first empty field, or to
\* `raise SolutionFound(grid)` when there is none
backtrack_enter ==
    /\ pc = "backtrack"
    /\ \E k \in {first_empty(heap, grid)} :
           IF k = -1
           THEN /\ pc' = "solution_found"
                /\ stack' = stack
                /\ entered' = entered
           ELSE /\ pc' = "backtrack_loop"
                /\ stack' = Append(stack,
                       BacktrackFrame(k \div Size, k % Size,
                                      field(heap, grid, k \div Size, k % Size)))
                /\ entered' = Append(entered, Entry(values_of(heap, grid)))
    /\ UNCHANGED << heap, generated, emptied, solved, grid,
                    num_of_empty_values, remaining, before, writes,
                    args, result >>

\* the loop assigns every value of range(1, 10) without asking can_be_at
backtrack_try_unchecked ==
    /\ pc = "backtrack_loop"
    /\ Top.value < MaxValue
    /\ stack' = [stack EXCEPT ![Len(stack)].value = Top.value + 1]
    /\ heap' = set_value(heap, Top.field, Top.value + 1)
    /\ entered' = Tried(Top.value + 1)
    /\ writes' = writes + 1
    /\ pc' = "backtrack"
    /\ UNCHANGED << generated, emptied, solved, grid,
                    num_of_empty_values, remaining, before,
                    args, result >>

\* one iteration of `for value in range(1, 10)`: when the value can be at the
\* field, assign it and call __backtrack
backtrack_try ==
    /\ pc = "backtrack_loop"
    /\ Top.value < MaxValue
    /\ LET value == Top.value + 1
       IN  /\ stack' = [stack EXCEPT ![Len(stack)].value = value]
           /\ IF can_be_at(heap, grid, value, Top.x, Top.y)
              THEN /\ heap' = set_value(heap, Top.field, value)
                   /\ writes' = writes + 1
                   /\ entered' = Tried(value)
                   /\ pc' = "backtrack"
              ELSE /\ UNCHANGED << heap, writes, entered >>
                   /\ pc' = "backtrack_loop"
    /\ UNCHANGED << generated, emptied, solved, grid,
                    num_of_empty_values, remaining, before,
                    args, result >>

\* `return grid` after the loop: back in the calling frame, before its
\* `current_field.value = 0`, or back in solve, which raises the exception
\* "Řešení neexistuje!"
backtrack_return ==
    /\ pc = "backtrack_loop"
    /\ Top.value = MaxValue
    /\ stack' = Pop
    /\ entered' = SubSeq(entered, 1, Len(entered) - 1)
    /\ pc' = IF Len(stack) = 1 THEN "no_solution" ELSE "backtrack_undo"
    /\ UNCHANGED << heap, generated, emptied, solved, grid,
                    num_of_empty_values, remaining, before, writes,
                    args, result >>

\* the calling frame goes on with its loop without resetting its field
backtrack_undo_skipped ==
    /\ pc = "backtrack_undo"
    /\ pc' = "backtrack_loop"
    /\ UNCHANGED << heap, generated, emptied, solved, grid, stack,
                    num_of_empty_values, remaining, before, writes,
                    entered, args, result >>

\* the calling frame resets its field and starts its loop again at 1
backtrack_undo_restart ==
    /\ pc = "backtrack_undo"
    /\ heap' = set_value(heap, Top.field, 0)
    /\ writes' = writes + 1
    /\ stack' = [stack EXCEPT ![Len(stack)].value = 0]
    /\ pc' = "backtrack_loop"
    /\ UNCHANGED << generated, emptied, solved, grid,
                    num_of_empty_values, remaining, before,
                    entered, args, result >>

\* `current_field.value = 0` after the call returned
backtrack_undo ==
    /\ pc = "backtrack_undo"
    /\ heap' = set_value(heap, Top.field, 0)
    /\ writes' = writes + 1
    /\ pc' = "backtrack_loop"
    /\ UNCHANGED << generated, emptied, solved, grid, stack,
                    num_of_empty_values, remaining, before,
                    entered, args, result >>

\* every frame SolutionFound leaves resets its field on the way, as a
\* `finally` would
solve_return_with_undo ==
    /\ pc = "solution_found"
    /\ solved' = grid
    /\ stack' = << >>
    /\ entered' = << >>
    /\ heap' = [r \in 1..Len(heap) |->
                   IF \E j \in 1..Len(stack) : stack[j].field = r
                   THEN Field(heap[r].x, heap[r].y, 0) ELSE heap[r]]
    /\ pc' = "solved"
    /\ UNCHANGED << generated, emptied, grid,
                    num_of_empty_values, remaining, before, writes,
                    args, result >>

\* SolutionFound leaves every frame of __backtrack and is caught by solve,
\* which returns solution_exception.grid
solve_return ==
    /\ pc = "solution_found"
    /\ solved' = grid
    /\ stack' = << >>
    /\ entered' = << >>
    /\ pc' = "solved"
    /\ UNCHANGED << heap, generated, emptied, grid,
                    num_of_empty_values, remaining, before, writes,
                    args, result >>

NextSolve ==
    \/ solve_call
    \/ backtrack_enter
    \/ backtrack_try
    \/ backtrack_return
    \/ backtrack_undo
    \/ solve_return

\* a caller calls solve(board) with one of the input boards
InitSolve ==
    /\ \E b \in InputBoards : heap = board_fields(b)
    /\ emptied = [i \in 1..Cells |-> i]
    /\ generated = None
    /\ solved = None
    /\ grid = None
    /\ stack = << >>
    /\ pc = "solve"
    /\ num_of_empty_values = 0
    /\ remaining = 0
    /\ before = << >>
    /\ writes = 0
    /\ entered = << >>
    /\ args = None
    /\ result = None

SpecSolve == InitSolve /\ [][NextSolve]_vars

-----------------------------------------------------------------------------
(* BacktrackingGenerator *)

\* random.shuffle(p): every order of the list
Shuffles(p) ==
    IF Len(p) = 0 THEN {p}
    ELSE {[i \in 1..Len(p) |-> p[f[i]]] : f \in Permutations(1..Len(p))}

\* a frame of __fill_grid that has found its empty field: the loop variables
\* x and y, field, the shuffled possibles, and the number i of values tried
FillFrame(x, y, fld, possibles) ==
    [x |-> x, y |-> y, field |-> fld, possibles |-> possibles, i |-> 0]

\* generate, up to the call of __fill_grid(self.empty_grid)
generate_call ==
    /\ pc = "generate"
    /\ heap' = heap \o empty_fields_list
    /\ grid' = [k \in 1..Cells |-> Len(heap) + k]
    /\ generated' = None
    /\ stack' = << >>
    /\ entered' = << >>
    /\ writes' = 0
    /\ pc' = "fill_grid"
    /\ UNCHANGED << emptied, solved, num_of_empty_values, remaining, before,
                    args, result >>

\* __fill_grid, from its entry to its first empty field and the shuffle of
\* its possible values, or to `raise _GridGenerated(grid)` when there is none
fill_grid_enter ==
    /\ pc = "fill_grid"
    /\ \E k \in {first_empty(heap, grid)} :
           IF k = -1
           THEN /\ pc' = "grid_generated"
                /\ stack' = stack
                /\ entered' = entered
           ELSE /\ pc' = "fill_grid_loop"
                /\ \E fld \in {field(heap, grid, k \div Size, k % Size)} :
                   \E possibles \in Shuffles(possible_values(heap, grid,
                                                 heap[fld].x, heap[fld].y)) :
                       stack' = Append(stack,
                           FillFrame(k \div Size, k % Size, fld, possibles))
                /\ entered' = Append(entered, Entry(values_of(heap, grid)))
    /\ UNCHANGED << heap, generated, emptied, solved, grid,
                    num_of_empty_values, remaining, before, writes,
                    args, result >>

\* one iteration of `for value in possibles`: assign the value and call
\* __fill_grid
fill_grid_try ==
    /\ pc = "fill_grid_loop"
    /\ Top.i < Len(Top.possibles)
    /\ stack' = [stack EXCEPT ![Len(stack)].i = Top.i + 1]
    /\ heap' = set_value(heap, Top.field, Top.possibles[Top.i + 1])
    /\ entered' = Tried(Top.possibles[Top.i + 1])
    /\ writes' = writes + 1
    /\ pc' = "fill_grid"
    /\ UNCHANGED << generated, emptied, solved, grid,
                    num_of_empty_values, remaining, before,
                    args, result >>

\* the frame whose loop has ended returns through every calling frame, as
\* if each returned what its call returned: generate gets no exception
fill_grid_return_through ==
    /\ pc = "fill_grid_loop"
    /\ Top.i = Len(Top.possibles)
    /\ stack' = << >>
    /\ entered' = << >>
    /\ pc' = "generated"
    /\ UNCHANGED << heap, generated, emptied, solved, grid,
                    num_of_empty_values, remaining, before, writes,
                    args, result >>

\* `return grid` after the loop: back in the calling frame, before its
\* `field.value = 0`, or back in generate, which returns generated_grid = None
fill_grid_return ==
    /\ pc = "fill_grid_loop"
    /\ Top.i = Len(Top.possibles)
    /\ stack' = Pop
    /\ entered' = SubSeq(entered, 1, Len(entered) - 1)
    /\ pc' = IF Len(stack) = 1 THEN "generated" ELSE "fill_grid_undo"
    /\ UNCHANGED << heap, generated, emptied, solved, grid,
                    num_of_empty_values, remaining, before, writes,
                    args, result >>

\* the calling frame goes on with its loop without resetting its field
fill_grid_undo_skipped ==
    /\ pc = "fill_grid_undo"
    /\ pc' = "fill_grid_loop"
    /\ UNCHANGED << heap, generated, emptied, solved, grid, stack,
                    num_of_empty_values, remaining, before, writes,
                    entered, args, result >>

\* `field.value = 0` after the call returned
fill_grid_undo ==
    /\ pc = "fill_grid_undo"
    /\ heap' = set_value(heap, Top.field, 0)
    /\ writes' = writes + 1
    /\ pc' = "fill_grid_loop"
    /\ UNCHANGED << generated, emptied, solved, grid, stack,
                    num_of_empty_values, remaining, before,
                    entered, args, result >>

\* _GridGenerated leaves every frame of __fill_grid and is caught by
\* generate, which returns generated.grid
generate_return ==
    /\ pc = "grid_generated"
    /\ generated' = grid
    /\ stack' = << >>
    /\ entered' = << >>
    /\ pc' = "generated"
    /\ UNCHANGED << heap, emptied, solved, grid,
                    num_of_empty_values, remaining, before, writes,
                    args, result >>

NextGenerate ==
    \/ generate_call
    \/ fill_grid_enter
    \/ fill_grid_try
    \/ fill_grid_return
    \/ fill_grid_undo
    \/ generate_return

\* a BacktrackingGenerator, about to generate
InitGenerate ==
    /\ heap = << >>
    /\ emptied = None
    /\ generated = None
    /\ solved = None
    /\ grid = None
    /\ stack = << >>
    /\ pc = "generate"
    /\ num_of_empty_values \in 0..MaxK
    /\ remaining = 0
    /\ before = << >>
    /\ writes = 0
    /\ entered = << >>
    /\ args = None
    /\ result = None

\* generate() from its call on, with every outcome of every shuffle: the
\* first frame alone has 9! orders to draw from, so the runs are explored
\* from the states below that the search passes through
SpecGenerate == InitGenerate /\ [][NextGenerate]_vars

\* the steps of generate after its call of __fill_grid
NextFill ==
    \/ fill_grid_enter
    \/ fill_grid_try
    \/ fill_grid_return
    \/ fill_grid_undo
    \/ generate_return

\* BaseBoard with its last n cells of the traversal empty
FillBoard(n) == [i \in 1..Cells |-> IF i <= Cells - n THEN BaseBoard[i] ELSE 0]

\* the list p with the value v moved to its front: one order of the shuffle
ValueFirst(p, v) == << v >> \o SelectSeq(p, LAMBDA w : w # v)

\* the frames of a search of generate that has assigned the value of
\* BaseBoard to each of the first m cells of the traversal, each as the first
\* value of the shuffled list of its frame
FillStack(m) ==
    [j \in 1..m |->
        [x |-> (j - 1) \div Size, y |-> (j - 1) % Size, field |-> j,
         possibles |-> ValueFirst(
             possible_values(board_fields(FillBoard(Cells - j + 1)),
                             [i \in 1..Cells |-> i],
                             (j - 1) \div Size, (j - 1) % Size),
             BaseBoard[j]),
         i |-> 1]]

\* the history of those frames
FillEntered(m) ==
    [j \in 1..m |-> [board |-> FillBoard(Cells - j + 1), tried |-> << BaseBoard[j] >>]]

\* a state of generate() in its search: the shuffles so far have put the
\* value of BaseBoard first in every frame, the first Cells - n cells hold
\* their values, and __fill_grid is called for the rest
FillState(n) ==
    /\ heap = board_fields(FillBoard(n))
    /\ grid = [i \in 1..Cells |-> i]
    /\ stack = FillStack(Cells - n)
    /\ entered = FillEntered(Cells - n)
    /\ writes = Cells - n
    /\ pc = "fill_grid"
    /\ generated = None
    /\ emptied = None
    /\ solved = None
    /\ remaining = 0
    /\ before = << >>
    /\ args = None
    /\ result = None

\* generate() of the generator of main.py in its search, with at most
\* MaxFill cells to fill; generate does not read num_of_empty_values
InitFill ==
    /\ \E n \in 0..MaxFill : FillState(n)
    /\ num_of_empty_values = MainCount

SpecFill == InitFill /\ [][NextFill]_vars

\* generate is one call of a sequential program: it runs until it returns
FairSpecFill == InitFill /\ [][NextFill]_vars /\ WF_vars(NextFill)

-----------------------------------------------------------------------------
(* GridGenerator.empty_values *)

\* random.choice(fs): any element of the list
Choices(fs) == {fs[j] : j \in 1..Len(fs)}

\* empty_values, up to its loop: `grid = grid.copy`
empty_values_call ==
    /\ pc = "generated"
    /\ generated # None
    /\ before' = values_of(heap, generated)
    /\ heap' = copy_heap(heap, generated)
    /\ grid' = copy_grid(heap, generated)
    /\ remaining' = num_of_empty_values
    /\ pc' = "empty_values_loop"
    /\ UNCHANGED << generated, emptied, solved, stack, num_of_empty_values, writes,
                    entered, args, result >>

\* one iteration of the loop: `choice(grid.filled_fields).value = 0`; choice
\* raises IndexError when no field is filled
empty_values_step ==
    /\ pc = "empty_values_loop"
    /\ remaining > 0
    /\ LET fs == filled_fields(heap, grid)
       IN  IF Len(fs) = 0
           THEN /\ pc' = "index_error"
                /\ UNCHANGED << heap, remaining >>
           ELSE /\ \E r \in Choices(fs) : heap' = set_value(heap, r, 0)
                /\ remaining' = remaining - 1
                /\ pc' = "empty_values_loop"
    /\ UNCHANGED << generated, emptied, solved, grid, stack,
                    num_of_empty_values, before, writes,
                    entered, args, result >>

\* `return grid` after the loop; main.py goes on to solve the grid
empty_values_return ==
    /\ pc = "empty_values_loop"
    /\ remaining = 0
    /\ emptied' = grid
    /\ pc' = "solve"
    /\ UNCHANGED << heap, generated, solved, grid, stack,
                    num_of_empty_values, remaining, before, writes,
                    entered, args, result >>

NextEmpty ==
    \/ empty_values_call
    \/ empty_values_step
    \/ empty_values_return

\* the values of num_of_empty_values a caller of empty_values constructs the
\* generator with
EmptyCounts == (0..MaxK) \cup {Cells - 1}

\* BaseBoard with every cell empty but those of F
Kept(F) == [i \in 1..Cells |-> IF i \in F THEN BaseBoard[i] ELSE 0]

\* boards with few filled cells, the all-empty board among them
SparseBoards == {Kept(F) : F \in SUBSET PoolCells}

\* a caller calls empty_values(board): with a board of few filled cells and
\* any of the counts, or with the complete board and a count up to MaxK
EmptyCall ==
    /\ \/ /\ \E b \in SparseBoards : heap = board_fields(b)
          /\ num_of_empty_values \in EmptyCounts
       \/ /\ heap = board_fields(BaseBoard)
          /\ num_of_empty_values \in 0..MaxK
    /\ generated = [i \in 1..Cells |-> i]
    /\ grid = None
    /\ pc = "generated"
    /\ remaining = 0
    /\ before = << >>

\* empty_values(board) with the complete board and the count 80, in its
\* loop: the copy has the cells of F left filled, one more than the loop has
\* iterations to run
EmptyLoop ==
    /\ \E F \in {S \in SUBSET PoolCells : Cardinality(S) \in 1..(MaxK + 1)} :
           /\ heap = board_fields(BaseBoard) \o board_fields(Kept(F))
           /\ remaining = Cardinality(F) - 1
    /\ num_of_empty_values = Cells - 1
    /\ generated = [i \in 1..Cells |-> i]
    /\ grid = [i \in 1..Cells |-> Cells + i]
    /\ pc = "empty_values_loop"
    /\ before = BaseBoard

\* empty_values at its call, or in its loop
InitEmpty ==
    /\ EmptyCall \/ EmptyLoop
    /\ emptied = None
    /\ solved = None
    /\ stack = << >>
    /\ writes = 0
    /\ entered = << >>
    /\ args = None
    /\ result = None

SpecEmpty == InitEmpty /\ [][NextEmpty]_vars

-----------------------------------------------------------------------------
(* GridGenerator.__init__ *)

\* the num_of_empty_values a caller constructs a generator with
EmptyArgs == {-1, Cells, Cells + 1} \cup EmptyCounts

\* the assertion with 81 let through
init_assertion_inclusive(k) == 0 <= k /\ k <= Cells

\* `assert 0 <= num_of_empty_values < 81`
init_assertion(k) == 0 <= k /\ k < Cells

\* GridGenerator.__init__: the generator exists, and empty_values can be
\* called on it, only when the assertion holds
generator_init ==
    /\ pc = "new_generator"
    /\ \E k \in EmptyArgs :
           /\ args' = [num_of_empty_values |-> k]
           /\ IF init_assertion(k)
              THEN /\ num_of_empty_values' = k
                   /\ pc' = "generated"
              ELSE /\ UNCHANGED num_of_empty_values
                   /\ pc' = "assertion_error"
    /\ UNCHANGED << heap, generated, emptied, solved, grid, stack,
                    remaining, before, writes, entered, result >>

NextConstruct == generator_init \/ NextEmpty

\* a caller holds a board of few filled cells and is about to construct a
\* generator and call its empty_values
InitConstruct ==
    /\ \E b \in SparseBoards : heap = board_fields(b)
    /\ generated = [i \in 1..Cells |-> i]
    /\ emptied = None
    /\ solved = None
    /\ grid = None
    /\ stack = << >>
    /\ pc = "new_generator"
    /\ num_of_empty_values = None
    /\ remaining = 0
    /\ before = << >>
    /\ writes = 0
    /\ entered = << >>
    /\ args = None
    /\ result = None

SpecConstruct == InitConstruct /\ [][NextConstruct]_vars

-----------------------------------------------------------------------------
(* Field.__init__, Grid.__init__ and the queries of a Grid *)

\* the board of the scenario: empty except that (0,0) and (1,0) hold 5
ScenarioBoard == [i \in 1..Cells |-> IF i \in {Pos(0, 0), Pos(1, 0)} THEN 5 ELSE 0]

\* the boards a caller constructs
GridBoards == InputBoards \cup {ScenarioBoard}

\* the (x, y, value) triples of a board
Triples(b) == [i \in 1..Cells |-> [x |-> (i - 1) \div Size, y |-> (i - 1) % Size, value |-> b[i]]]

\* lists of triples that are no board: 80 and 82 triples, a repeated
\* coordinate, coordinates and values out of range
MalformedInputs ==
    LET t == Triples(BaseBoard)
    IN  { SubSeq(t, 1, Cells - 1),
          Append(t, [x |-> 0, y |-> 0, value |-> 0]),
          [t EXCEPT ![2] = [x |-> 0, y |-> 0, value |-> 1]],
          [t EXCEPT ![Cells] = [x |-> 0, y |-> 0, value |-> 0]],
          [t EXCEPT ![1] = [x |-> Size, y |-> 0, value |-> 2]],
          [t EXCEPT ![1] = [x |-> -1, y |-> 0, value |-> 2]],
          [t EXCEPT ![Cells] = [x |-> Size - 1, y |-> Size, value |-> 2]],
          [t EXCEPT ![1] = [x |-> 0, y |-> 0, value |-> MaxValue + 1]],
          [t EXCEPT ![1] = [x |-> 0, y |-> 0, value |-> -1]] }

\* the lists of triples a caller constructs a board from
GridInputs == {Triples(b) : b \in GridBoards} \cup MalformedInputs

\* the cells a caller asks can_be_at about
ProbeCells == { <<0, 0>>, <<1, 0>>, <<1, 1>>, <<1, 2>>, <<4, 1>>, <<0, 5>>, <<4, 4>>, <<8, 8>> }

\* the cells a caller asks Grid.field for
FieldProbes == { <<0, 0>>, <<0, Size - 1>>, <<Size - 1, 0>>, <<Size - 1, Size - 1>>, <<4, 4>> }

\* the assertions of Field.__init__
field_assertions(x, y, value) ==
    /\ x \in 0..(Size - 1)
    /\ y \in 0..(Size - 1)
    /\ value \in 0..MaxValue

\* the caller constructs a Field for every triple; an assertion of
\* Field.__init__ that fails ends the construction
fields_init ==
    /\ pc = "new_fields"
    /\ IF \A i \in 1..Len(args.fields) :
              field_assertions(args.fields[i].x, args.fields[i].y, args.fields[i].value)
       THEN /\ heap' = [i \in 1..Len(args.fields) |->
                           Field(args.fields[i].x, args.fields[i].y, args.fields[i].value)]
            /\ pc' = "new_grid"
       ELSE /\ heap' = heap
            /\ pc' = "assertion_error"
    /\ UNCHANGED << generated, emptied, solved, grid, stack, num_of_empty_values,
                    remaining, before, writes, entered, args, result >>

\* the checks of Grid.__init__ with the count of the fields left out
grid_assertions_without_count(h, fs) ==
    \A i \in 1..Len(fs) : \A j \in (i + 1)..Len(fs) :
        ~(h[fs[i]].x = h[fs[j]].x /\ h[fs[i]].y = h[fs[j]].y)

\* the checks of Grid.__init__: 81 fields, no two with the same coordinates
grid_assertions(h, fs) ==
    /\ Len(fs) = Cells
    /\ \A i \in 1..Len(fs) : \A j \in (i + 1)..Len(fs) :
           ~(h[fs[i]].x = h[fs[j]].x /\ h[fs[i]].y = h[fs[j]].y)

\* Grid.__init__ on the fields constructed
grid_init ==
    /\ pc = "new_grid"
    /\ LET fs == [i \in 1..Len(heap) |-> i]
       IN  IF grid_assertions(heap, fs)
           THEN /\ grid' = fs
                /\ pc' = "grid"
           ELSE /\ grid' = grid
                /\ pc' = "assertion_error"
    /\ UNCHANGED << heap, generated, emptied, solved, stack, num_of_empty_values,
                    remaining, before, writes, entered, args, result >>

\* Grid.can_be_at(value, x, y)
can_be_at_call ==
    /\ pc = "grid"
    /\ \E value \in 1..MaxValue : \E c \in ProbeCells :
           /\ args' = [value |-> value, x |-> c[1], y |-> c[2]]
           /\ result' = can_be_at(heap, grid, value, c[1], c[2])
    /\ pc' = "can_be_at_done"
    /\ UNCHANGED << heap, generated, emptied, solved, grid, stack,
                    num_of_empty_values, remaining, before, writes, entered >>

\* Grid.is_consistent
is_consistent_call ==
    /\ pc = "grid"
    /\ args' = None
    /\ result' = is_consistent(heap, grid)
    /\ pc' = "is_consistent_done"
    /\ UNCHANGED << heap, generated, emptied, solved, grid, stack,
                    num_of_empty_values, remaining, before, writes, entered >>

\* Grid.field(x, y): the first field with the coordinates, ValueError when
\* the loop finds none
field_call ==
    /\ pc = "grid"
    /\ \E c \in FieldProbes :
           /\ args' = [x |-> c[1], y |-> c[2]]
           /\ IF \E i \in 1..Len(grid) : heap[grid[i]].x = c[1] /\ heap[grid[i]].y = c[2]
              THEN /\ result' = field(heap, grid, c[1], c[2])
                   /\ pc' = "field_done"
              ELSE /\ result' = result
                   /\ pc' = "value_error"
    /\ UNCHANGED << heap, generated, emptied, solved, grid, stack,
                    num_of_empty_values, remaining, before, writes, entered >>

\* Grid.can_be_in_small_square(value, x, y)
can_be_in_small_square_call ==
    /\ pc = "grid"
    /\ \E value \in 1..MaxValue : \E c \in ProbeCells :
           /\ args' = [value |-> value, x |-> c[1], y |-> c[2]]
           /\ result' = can_be_in_small_square(heap, grid, value, c[1], c[2])
    /\ pc' = "can_be_in_small_square_done"
    /\ UNCHANGED << heap, generated, emptied, solved, grid, stack,
                    num_of_empty_values, remaining, before, writes, entered >>

\* the values a caller assigns to a field of its board
SetValues == (-1)..(MaxValue + 1)

\* a caller assigns to the value of a field of the Grid, which Grid.fields
\* and Grid.field hand out: `grid.field(x, y).value = new_value`
value_set_call ==
    /\ pc = "grid"
    /\ \E c \in FieldProbes : \E new_value \in SetValues :
           /\ args' = [x |-> c[1], y |-> c[2], new_value |-> new_value]
           /\ heap' = set_value(heap, field(heap, grid, c[1], c[2]), new_value)
           /\ pc' = IF value_assertion(new_value)
                    THEN "value_set" ELSE "value_assertion_error"
    /\ UNCHANGED << generated, emptied, solved, grid, stack,
                    num_of_empty_values, remaining, before, writes, entered,
                    result >>

NextGrid ==
    \/ fields_init
    \/ grid_init
    \/ can_be_at_call
    \/ is_consistent_call
    \/ field_call
    \/ can_be_in_small_square_call
    \/ value_set_call

\* a caller is about to construct a board from a list of triples
InitGrid ==
    /\ heap = << >>
    /\ generated = None
    /\ emptied = None
    /\ solved = None
    /\ grid = None
    /\ stack = << >>
    /\ pc = "new_fields"
    /\ num_of_empty_values = 0
    /\ remaining = 0
    /\ before = << >>
    /\ writes = 0
    /\ entered = << >>
    /\ args \in {[fields |-> t] : t \in GridInputs}
    /\ result = None

SpecGrid == InitGrid /\ [][NextGrid]_vars

-----------------------------------------------------------------------------
(* main.py: generate, empty_values, solve *)

\* main.py line 2, `from src import BacktrackingGenerator, BacktrackingSolver`:
\* src/__init__.py imports Field, Grid, GridGenerator and
\* BacktrackingGenerator only, so the import raises ImportError and the
\* script ends
main_import ==
    /\ pc = "main"
    /\ pc' = "import_error"
    /\ UNCHANGED << heap, generated, emptied, solved, grid, stack,
                    num_of_empty_values, remaining, before, writes, entered,
                    args, result >>

\* main.py at its start: no generator, no board
Init ==
    /\ heap = << >>
    /\ generated = None
    /\ emptied = None
    /\ solved = None
    /\ grid = None
    /\ stack = << >>
    /\ pc = "main"
    /\ num_of_empty_values = None
    /\ remaining = 0
    /\ before = << >>
    /\ writes = 0
    /\ entered = << >>
    /\ args = None
    /\ result = None

\* lines 6 to 15 of main.py: generate, empty_values, solve
NextMain == NextGenerate \/ NextEmpty \/ NextSolve

Next == main_import \/ NextMain

\* main.py as it is: its one step is the import that fails
Spec == Init /\ [][Next]_vars

\* main.py after line 5, were the import of line 2 to succeed: the generator
\* holds the count 45 and generate is about to be called
InitMain ==
    /\ heap = << >>
    /\ generated = None
    /\ emptied = None
    /\ solved = None
    /\ grid = None
    /\ stack = << >>
    /\ pc = "generate"
    /\ num_of_empty_values = MainCount
    /\ remaining = 0
    /\ before = << >>
    /\ writes = 0
    /\ entered = << >>
    /\ args = None
    /\ result = None

\* lines 5 to 15 of main.py as written, with every outcome of every shuffle
\* and of every choice; its runs are explored from the states below that
\* they pass through
SpecMain == InitMain /\ [][NextMain]_vars

\* the round trip after the call of __fill_grid
NextPipeline == NextFill \/ NextEmpty \/ NextSolve

\* a caller that does what main.py does, with a generator of a small count:
\* in the search of generate, with at most MaxPipeFill cells to fill
RoundTripFill ==
    /\ \E n \in 0..MaxPipeFill : FillState(n)
    /\ num_of_empty_values \in 0..MaxPipeK

\* the cells the loop of empty_values has emptied in that round trip: those
\* of the input boards, and two more with which the solver's first candidate
\* for (0,0) fails
PipelineCells == PoolCells \cup {Pos(0, 1), Pos(3, 0)}

\* the boards generate has returned
GeneratedBoards == {BaseBoard, SwappedBoard}

\* the same caller at the end of the loop of empty_values: generate has
\* returned the board b without resetting a field, and the loop has emptied
\* the cells E of the copy, as many as the count of its generator
RoundTripEmptied ==
    /\ \E b \in GeneratedBoards :
       \E E \in {S \in SUBSET PipelineCells : Cardinality(S) <= MaxEmpty} :
           /\ heap = board_fields(b) \o
                         board_fields([i \in 1..Cells |-> IF i \in E THEN 0 ELSE b[i]])
           /\ num_of_empty_values = Cardinality(E)
           /\ before = b
    /\ generated = [i \in 1..Cells |-> i]
    /\ grid = [i \in 1..Cells |-> Cells + i]
    /\ emptied = None
    /\ solved = None
    /\ stack = << >>
    /\ entered = << >>
    /\ writes = Cells
    /\ remaining = 0
    /\ pc = "empty_values_loop"
    /\ args = None
    /\ result = None

\* BaseBoard with 45 of its cells emptied: a board that the loop of
\* empty_values of main.py ends with; its zeros are the cells emptied
MainBoard ==
    << 0, 0, 0, 0, 0, 0, 7, 0, 9,   4, 0, 6, 7, 8, 0, 0, 2, 3,
       0, 8, 0, 0, 0, 0, 4, 5, 0,   0, 0, 4, 0, 0, 0, 8, 0, 7,
       3, 6, 5, 0, 9, 7, 0, 1, 0,   8, 9, 0, 0, 1, 4, 0, 0, 0,
       5, 0, 1, 6, 4, 0, 0, 0, 0,   0, 4, 0, 0, 0, 8, 0, 3, 1,
       0, 0, 0, 5, 3, 1, 0, 4, 0 >>

\* the cells of MainBoard that are empty, but the last r of them
MainCells(r) ==
    {i \in 1..Cells :
        /\ MainBoard[i] = 0
        /\ Cardinality({j \in (i + 1)..Cells : MainBoard[j] = 0}) >= r}

\* main.py in the loop of empty_values (line 10), with at most MaxLeft
\* iterations to run: generate has returned the board b without resetting a
\* field, and the loop has emptied 45 - r cells of the copy
MainLoop ==
    /\ \E b \in GeneratedBoards : \E r \in 0..MaxLeft :
           /\ heap = board_fields(b) \o
                         board_fields([i \in 1..Cells |->
                                          IF i \in MainCells(r) THEN 0 ELSE b[i]])
           /\ remaining = r
           /\ before = b
    /\ num_of_empty_values = MainCount
    /\ generated = [i \in 1..Cells |-> i]
    /\ grid = [i \in 1..Cells |-> Cells + i]
    /\ emptied = None
    /\ solved = None
    /\ stack = << >>
    /\ entered = << >>
    /\ writes = Cells
    /\ pc = "empty_values_loop"
    /\ args = None
    /\ result = None

\* the states the round trip is explored from: those of main.py in its loop
\* of empty_values, and those of the caller with a small count
InitPipeline == MainLoop \/ RoundTripFill \/ RoundTripEmptied

SpecPipeline == InitPipeline /\ [][NextPipeline]_vars

\* the searches of both classes: solve called with an input board, and
\* generate in its search
NextSearch == NextFill \/ NextSolve

InitSearch == InitSolve \/ InitFill

SpecSearch == InitSearch /\ [][NextSearch]_vars

\* the program is sequential: it takes its next step as long as it has one
FairSpecSearch == InitSearch /\ [][NextSearch]_vars /\ WF_vars(NextSearch)

-----------------------------------------------------------------------------
(* The rules of the game, stated on the cell values: val[i] is the value of  *)
(* the i-th field of the grid g                                              *)

\* the i-th and the j-th field share a row, a column or a small square
SameUnit(h, g, i, j) ==
    \/ h[g[i]].x = h[g[j]].x
    \/ h[g[i]].y = h[g[j]].y
    \/ /\ h[g[i]].x \div Box = h[g[j]].x \div Box
       /\ h[g[i]].y \div Box = h[g[j]].y \div Box

\* no two filled cells of a row, a column or a small square hold the same value
Consistent(h, g, val) ==
    \E v \in {val} :
        \A i \in 1..Len(g) :
            v[i] # 0 =>
                \A j \in 1..Len(g) : (j # i /\ v[j] = v[i]) => ~SameUnit(h, g, i, j)

\* every cell holds a value in 1..9
Complete(val) == \A i \in 1..Len(val) : val[i] \in 1..MaxValue

\* the value v is held by no other cell of the units of the i-th cell
Fits(h, g, val, i, v) ==
    \A j \in 1..Len(g) : (j # i /\ SameUnit(h, g, i, j)) => val[j] # v

\* some assignment of values to the empty cells makes val complete and
\* consistent
RECURSIVE Completable(_, _, _)
Completable(h, g, val) ==
    IF Complete(val)
    THEN Consistent(h, g, val)
    ELSE LET i == CHOOSE i \in 1..Len(val) : val[i] = 0
         IN  \E v \in 1..MaxValue :
                 /\ Fits(h, g, val, i, v)
                 /\ Completable(h, g, [val EXCEPT ![i] = v])

\* the complete consistent boards that val can be filled up to
RECURSIVE Completions(_, _, _)
Completions(h, g, val) ==
    IF Complete(val)
    THEN IF Consistent(h, g, val) THEN {val} ELSE {}
    ELSE LET i == CHOOSE i \in 1..Len(val) : val[i] = 0
         IN  UNION { Completions(h, g, [val EXCEPT ![i] = v]) :
                       v \in {w \in 1..MaxValue : Fits(h, g, val, i, w)} }

\* the two grids share no Field object
NoSharedField(g1, g2) ==
    \A i \in 1..Len(g1) : \A j \in 1..Len(g2) : g1[i] # g2[j]

-----------------------------------------------------------------------------
(* C1 *)

\* C1: every board generate() returns has 81 cells, each with a value in
\* 1..9, and no row, column or small square holds the same value twice; the
\* program's own is_solved agrees.
C1_GeneratedIsSolved ==
    (pc = "generated" /\ generated # None) =>
        /\ Len(generated) = Cells
        /\ Complete(values_of(heap, generated))
        /\ Consistent(heap, generated, values_of(heap, generated))
        /\ is_solved(heap, generated)

\* generate() has returned a board after a search that undid assignments,
\* and in which a shuffle put another value first than that of BaseBoard
C1_Witness ==
    /\ pc = "generated"
    /\ generated # None
    /\ writes > Cells
    /\ values_of(heap, generated) # BaseBoard

-----------------------------------------------------------------------------
(* solve: C2 .. C6, C9 *)

\* the board handed to solve was consistent when solve was called
InputConsistent == Consistent(heap, emptied, before)

\* solve has returned a board or raised its exception
SolveFinished == pc \in {"solved", "no_solution"}

\* C2: whenever solve returns a board for a consistent input board, the
\* board has no empty cell and no cell shares its value with another cell of
\* its row, column or small square.
C2_SolvedIsSolved ==
    (pc = "solved" /\ InputConsistent) =>
        /\ Complete(values_of(heap, solved))
        /\ Consistent(heap, solved, values_of(heap, solved))
        /\ is_solved(heap, solved)

\* solve has returned a board for a consistent partial board after undoing
\* an assignment
C2_Witness ==
    /\ pc = "solved"
    /\ InputConsistent
    /\ ~Complete(before)
    /\ \E i \in 1..Cells : before[i] # 0
    /\ writes > Cardinality({i \in 1..Cells : before[i] = 0})

\* C3: solve never returns a board for an inconsistent input board.
C3_InconsistentNeverSolved ==
    ~(pc = "solved" /\ ~InputConsistent)

\* C4: for a consistent partial board, solve raises its "no solution"
\* exception exactly when no assignment of values to the empty cells yields a
\* complete consistent board, and returns a board otherwise.
C4_NoSolutionIffNoCompletion ==
    (SolveFinished /\ InputConsistent /\ ~Complete(before)) =>
        (pc = "no_solution" <=> ~Completable(heap, emptied, before))

\* solve has raised "no solution" for a consistent partial board
C4_Witness ==
    /\ pc = "no_solution"
    /\ InputConsistent
    /\ ~Complete(before)
    /\ writes > 0

\* C5: from the call of solve on, at every step, every cell of the caller's
\* board holds the value it held at the call, and a returned board shares no
\* Field with it.
C5_InputUntouched ==
    pc # "solve" =>
        /\ values_of(heap, emptied) = before
        /\ solved # None => NoSharedField(solved, emptied)

\* the search has assigned a value to a cell that is empty in the caller's
\* board
C5_Witness ==
    /\ pc = "backtrack"
    /\ writes > 0
    /\ \E i \in 1..Cells : before[i] = 0 /\ heap[grid[i]].value # 0

\* C6: for a complete consistent board, solve returns a board with the same
\* 81 cell values, and the search assigns and resets no cell.
C6_CompleteReturnedUnchanged ==
    (pc # "solve" /\ Complete(before) /\ InputConsistent) =>
        /\ pc \in {"backtrack", "solution_found", "solved"}
        /\ writes = 0
        /\ stack = << >>
        /\ pc = "solved" => values_of(heap, solved) = before

\* solve has returned for the complete consistent board BaseBoard
C6_Witness ==
    /\ pc = "solved"
    /\ before = BaseBoard
    /\ Complete(before)
    /\ InputConsistent

\* C9: solving the all-empty board, the first frame branches on the cell
\* (0,0), the only value it ever assigns to it is 1, and the returned board
\* holds 1 at (0,0).
C9_EmptyBoardStartsWithOne ==
    (pc # "solve" /\ before = EmptyBoard) =>
        /\ pc # "no_solution"
        /\ stack # << >> =>
              /\ stack[1].x = 0 /\ stack[1].y = 0
              /\ stack[1].value <= 1
              /\ heap[stack[1].field].value = stack[1].value
        /\ pc = "solved" => heap[field(heap, solved, 0, 0)].value = 1

\* solve has returned for the all-empty board
C9_Witness ==
    /\ pc = "solved"
    /\ before = EmptyBoard
    /\ heap[field(heap, solved, 0, 0)].value = 1

-----------------------------------------------------------------------------
(* C7, C8, C10 *)

\* C7: in the pipeline generate -> empty_values -> solve, solve never raises
\* "no solution"; the board it returns is complete and consistent; and when
\* the emptied board has exactly one valid completion, the returned board
\* has the cell values of the generated board.
C7_RoundTrip ==
    SolveFinished =>
        /\ pc = "solved"
        /\ Complete(values_of(heap, solved))
        /\ Consistent(heap, solved, values_of(heap, solved))
        /\ Cardinality(Completions(heap, emptied, before)) = 1 =>
               values_of(heap, solved) = values_of(heap, generated)

\* solve has returned the generated board for an emptied board with several
\* empty cells and one completion
C7_Witness ==
    /\ pc = "solved"
    /\ num_of_empty_values >= 2
    /\ Cardinality({i \in 1..Cells : before[i] = 0}) = num_of_empty_values
    /\ Cardinality(Completions(heap, emptied, before)) = 1
    /\ values_of(heap, solved) = values_of(heap, generated)

\* solve has returned a solved board other than the generated one, for an
\* emptied board with more than one completion
C7_OtherSolution ==
    /\ pc = "solved"
    /\ Cardinality(Completions(heap, emptied, before)) > 1
    /\ values_of(heap, solved) # values_of(heap, generated)

\* main.py has run to its end with its count of 45: solve has returned a
\* solved board for the board with 45 cells emptied, which has several
\* completions
C7_MainRun ==
    /\ pc = "solved"
    /\ num_of_empty_values = MainCount
    /\ Cardinality({i \in 1..Cells : before[i] = 0}) = MainCount
    /\ Cardinality(Completions(heap, emptied, before)) > 1
    /\ is_solved(heap, solved)

\* C8: generate() eventually returns, and what it returns is a board, never
\* None.
C8_GenerateReturnsBoard ==
    /\ <>(pc = "generated")
    /\ [](pc = "generated" => generated # None)

\* generate() has returned BaseBoard after a search in which shuffles put
\* values first that led nowhere, so that frames returned and their callers
\* reset their fields
C8_Witness ==
    /\ pc = "generated"
    /\ generated # None
    /\ stack = << >>
    /\ writes >= Cells + 4
    /\ values_of(heap, generated) = BaseBoard

\* the number of filled cells of the board handed to empty_values
FilledBefore == Cardinality({i \in 1..Len(before) : before[i] # 0})

\* the board empty_values returns is a copy of its argument in which exactly
\* num_of_empty_values filled cells are empty and every other cell is as it was
ExactlyEmptied ==
    /\ emptied # None
    /\ Len(emptied) = Len(generated)
    /\ NoSharedField(emptied, generated)
    /\ \A i \in 1..Len(emptied) :
           /\ heap[emptied[i]].x = heap[generated[i]].x
           /\ heap[emptied[i]].y = heap[generated[i]].y
           /\ heap[emptied[i]].value \in {0, before[i]}
    /\ Cardinality({i \in 1..Len(emptied) :
                      before[i] # 0 /\ heap[emptied[i]].value = 0}) = num_of_empty_values

\* C10 as amended: for a board with at least num_of_empty_values filled
\* cells, empty_values returns a copy in which exactly that many filled cells
\* are empty and every other cell is as it was; for a board with fewer filled
\* cells it raises IndexError and returns nothing; the argument keeps its
\* values throughout.
C10_EmptyValues ==
    /\ pc # "generated" => values_of(heap, generated) = before
    /\ pc = "solve" => (FilledBefore >= num_of_empty_values /\ ExactlyEmptied)
    /\ pc = "index_error" => (FilledBefore < num_of_empty_values /\ emptied = None)

\* empty_values has returned a board with one filled cell for a complete
\* board and num_of_empty_values = 80
C10_Witness ==
    /\ pc = "solve"
    /\ num_of_empty_values = Cells - 1
    /\ Complete(before)
    /\ Len(filled_fields(heap, emptied)) = 1

\* C10 as claimed: for every board, empty_values returns a copy in which
\* exactly num_of_empty_values filled cells are empty.
C10_Original ==
    pc \in {"solve", "index_error"} => (pc = "solve" /\ ExactlyEmptied)

-----------------------------------------------------------------------------
(* C11 *)

\* the call of empty_values on the constructed generator is under way or over
InEmptyValues == pc \in {"generated", "empty_values_loop", "solve", "index_error"}

\* C11: a num_of_empty_values outside [0, 81) is rejected by the constructor
\* of the generator: empty_values only ever runs with a count in [0, 81), and
\* after a rejection no copy of the board has been made, no board is returned
\* and the caller's board holds the values it held.
C11_CountOutOfRangeRejected ==
    /\ InEmptyValues =>
           /\ args.num_of_empty_values \in 0..(Cells - 1)
           /\ num_of_empty_values = args.num_of_empty_values
    /\ pc = "assertion_error" =>
           /\ args.num_of_empty_values \notin 0..(Cells - 1)
           /\ num_of_empty_values = None
           /\ emptied = None
           /\ grid = None
           /\ Len(heap) = Cells
           /\ \A i \in 1..Cells : heap[generated[i]].value \in {0, BaseBoard[i]}

\* the constructor has rejected 81
C11_Witness ==
    /\ pc = "assertion_error"
    /\ args.num_of_empty_values = Cells
    /\ emptied = None

-----------------------------------------------------------------------------
(* C12, C13, C14 *)

\* the position in the grid of the field with the coordinates of args
ProbedCell ==
    CHOOSE i \in 1..Len(grid) : heap[grid[i]].x = args.x /\ heap[grid[i]].y = args.y

\* C12: can_be_at(value, x, y) is true exactly when no cell other than (x, y)
\* of its row, its column or its small square holds the value, whether the
\* cell (x, y) is empty or filled.
C12_CanBeAt ==
    pc = "can_be_at_done" =>
        (result <=> Fits(heap, grid, values_of(heap, grid), ProbedCell, args.value))

\* can_be_at has answered False for an empty cell and a value that only
\* cells of other rows and columns hold: a cell of the small square does
C12_Witness ==
    /\ pc = "can_be_at_done"
    /\ result = FALSE
    /\ heap[grid[ProbedCell]].value = 0
    /\ \A j \in 1..Len(grid) :
           heap[grid[j]].value = args.value =>
               /\ heap[grid[j]].x # args.x
               /\ heap[grid[j]].y # args.y

\* can_be_at has answered True for a filled cell and the value it holds
C12_FilledProbe ==
    /\ pc = "can_be_at_done"
    /\ heap[grid[ProbedCell]].value = args.value
    /\ result = TRUE

\* C13: is_consistent is true exactly when no two distinct filled cells of a
\* row, a column or a small square hold the same value; it is true of the
\* all-empty board and false of the board that is empty except (0,0) = 5 and
\* (1,0) = 5.
C13_IsConsistent ==
    pc = "is_consistent_done" =>
        /\ result <=> Consistent(heap, grid, values_of(heap, grid))
        /\ values_of(heap, grid) = EmptyBoard => result = TRUE
        /\ values_of(heap, grid) = ScenarioBoard => result = FALSE

\* is_consistent has answered False for the board of the scenario
C13_Witness ==
    /\ pc = "is_consistent_done"
    /\ values_of(heap, grid) = ScenarioBoard
    /\ result = FALSE

\* the list of triples is a board: 81 triples, in range, with pairwise
\* distinct coordinates
WellFormed(t) ==
    /\ Len(t) = Cells
    /\ \A i \in 1..Len(t) :
           t[i].x \in 0..(Size - 1) /\ t[i].y \in 0..(Size - 1) /\ t[i].value \in 0..MaxValue
    /\ \A i \in 1..Len(t) : \A j \in 1..Len(t) :
           (t[i].x = t[j].x /\ t[i].y = t[j].y) => i = j

\* C14: the construction is rejected, and leaves no Grid, exactly for the
\* lists that are no board; every Grid that exists has 81 fields, one for
\* each coordinate of [0,8] x [0,8], and Grid.field finds the field it is
\* asked for.
C14_Construction ==
    /\ pc = "assertion_error" => (grid = None /\ ~WellFormed(args.fields))
    /\ pc = "new_grid" => grid = None
    /\ pc = "grid" => WellFormed(args.fields)
    /\ grid # None =>
           /\ Len(grid) = Cells
           /\ \A x \in 0..(Size - 1) : \A y \in 0..(Size - 1) :
                  Cardinality({i \in 1..Len(grid) :
                                 heap[grid[i]].x = x /\ heap[grid[i]].y = y}) = 1
    /\ pc # "value_error"
    /\ pc = "field_done" => (heap[result].x = args.x /\ heap[result].y = args.y)

\* a list with a repeated coordinate has been rejected by Grid.__init__, after
\* its Field objects were constructed
C14_Witness ==
    /\ pc = "assertion_error"
    /\ Len(heap) = Cells
    /\ grid = None

-----------------------------------------------------------------------------
(* The search: C15 .. C20 *)

\* the position of the program is in solve or __backtrack
InSolve ==
    pc \in {"backtrack", "backtrack_loop", "backtrack_undo",
            "solution_found", "solved", "no_solution"}

\* the position of the program is in __fill_grid, or at the raise or the
\* catch of _GridGenerated
InFill == pc \in {"fill_grid", "fill_grid_loop", "fill_grid_undo", "grid_generated"}

\* the position in the grid of the field of the j-th frame
FrameCell(j) == CHOOSE i \in 1..Len(grid) : grid[i] = stack[j].field

\* the value the j-th frame has assigned last, 0 if none
Trial(j) ==
    IF Len(entered[j].tried) = 0 THEN 0 ELSE entered[j].tried[Len(entered[j].tried)]

\* C15: between the iterations of its loop, and so when it returns normally,
\* a search call finds every cell with the value it held at the entry of the
\* call; when the caller is about to reset its field, every other cell holds
\* the value it held at the caller's entry; and when the search of solve is
\* exhausted the working board holds the values of the starting board.
C15_UndoOnFailure ==
    /\ pc \in {"backtrack_loop", "fill_grid_loop"} =>
           values_of(heap, grid) = entered[Len(entered)].board
    /\ pc \in {"backtrack_undo", "fill_grid_undo"} =>
           values_of(heap, grid) =
               [entered[Len(entered)].board EXCEPT ![FrameCell(Len(stack))] = Trial(Len(stack))]
    /\ pc = "no_solution" => values_of(heap, grid) = before
    /\ (pc = "generated" /\ generated = None) => values_of(heap, grid) = EmptyBoard

\* a call of __backtrack below the top one is about to return normally,
\* after it assigned values to its field and reset it
C15_Witness ==
    /\ pc = "backtrack_loop"
    /\ Len(stack) >= 2
    /\ Top.value = MaxValue
    /\ Len(entered[Len(entered)].tried) >= 1
    /\ values_of(heap, grid) = entered[Len(entered)].board

\* C16: the step that follows the raise of SolutionFound or _GridGenerated
\* is the return of solve or generate with the board of that moment, which is
\* complete; no field is assigned or reset on the way, and the board returned
\* keeps its values from then on.
C16_ShortCircuit ==
    [][ /\ pc = "solution_found" =>
               /\ pc' = "solved"
               /\ is_complete(heap, grid)
               /\ heap' = heap
               /\ values_of(heap', solved') = values_of(heap, grid)
        /\ pc = "grid_generated" =>
               /\ pc' = "generated"
               /\ is_complete(heap, grid)
               /\ heap' = heap
               /\ values_of(heap', generated') = values_of(heap, grid)
        /\ solved # None =>
               /\ solved' = solved
               /\ values_of(heap', solved') = values_of(heap, solved)
        /\ (generated # None /\ pc # "generate") =>
               /\ generated' = generated
               /\ values_of(heap', generated') = values_of(heap, generated)
      ]_vars

\* solve has returned the board found below several frames, each of which
\* still held its trial value
C16_Witness ==
    /\ pc = "solved"
    /\ Cardinality({i \in 1..Cells : before[i] = 0}) >= 2
    /\ values_of(heap, solved) = values_of(heap, grid)
    /\ Complete(values_of(heap, solved))

\* C17: the working board of generate is consistent in every state of the
\* search, that of solve is when the starting board was; and every value of
\* its list that a frame of __fill_grid has still to assign can be at its
\* field on the board as it is between the iterations.
C17_SearchConsistent ==
    /\ (InSolve /\ InputConsistent) => Consistent(heap, grid, values_of(heap, grid))
    /\ InFill => Consistent(heap, grid, values_of(heap, grid))
    /\ pc = "fill_grid_loop" =>
           \A j \in (Top.i + 1)..Len(Top.possibles) :
               can_be_at(heap, grid, Top.possibles[j], Top.x, Top.y)

\* a frame of __fill_grid is about to assign a value of its list after it
\* has reset its field
C17_Witness ==
    /\ pc = "fill_grid_loop"
    /\ Top.i >= 1
    /\ Top.i < Len(Top.possibles)
    /\ heap[Top.field].value = 0
    /\ can_be_at(heap, grid, Top.possibles[Top.i + 1], Top.x, Top.y)

\* the position of the program is inside a search
InSearch ==
    pc \in {"backtrack", "backtrack_loop", "backtrack_undo", "solution_found",
            "fill_grid", "fill_grid_loop", "fill_grid_undo", "grid_generated"}

\* the number of candidates the j-th frame has gone through
Counter(j) == IF InSolve THEN stack[j].value ELSE stack[j].i

\* the progress of the search: for every frame, where it is with its
\* candidates (a frame below the top one is inside the call made for its
\* candidate; the top one may also be between iterations or about to reset
\* its field), and then whether a call is being entered or has raised
Rank ==
    [j \in 1..Len(stack) |->
        IF j = Len(stack) /\ pc \in {"backtrack_loop", "fill_grid_loop"}
        THEN 3 * Counter(j) + 2
        ELSE IF j = Len(stack) /\ pc \in {"backtrack_undo", "fill_grid_undo"}
             THEN 3 * Counter(j) + 1
             ELSE 3 * Counter(j)]
    \o (IF pc \in {"backtrack", "fill_grid"} THEN << 0 >>
        ELSE IF pc \in {"solution_found", "grid_generated"} THEN << 1 >>
        ELSE << >>)

\* the j-th element of a, -1 beyond its end
At(a, j) == IF j <= Len(a) THEN a[j] ELSE -1

\* a comes before b in the lexicographic order
LexLess(a, b) ==
    \E i \in 1..(IF Len(a) > Len(b) THEN Len(a) ELSE Len(b)) :
        /\ \A j \in 1..(i - 1) : At(a, j) = At(b, j)
        /\ At(a, i) < At(b, i)

\* the search has ended: solve has returned a board or raised "no solution",
\* or generate has returned
SearchFinished == SolveFinished \/ pc = "generated"

\* C18: every run comes to the end of its search: that of solve with a
\* board or with "no solution", for consistent and inconsistent starting
\* boards, that of generate under every order drawn for its candidates; and
\* every step of a search moves the candidate positions of its frames
\* forward in the lexicographic order, so that no state of a search is
\* visited twice.
C18_Terminates ==
    /\ <>SearchFinished
    /\ [][(InSearch /\ InSearch') =>
              \E a \in {Rank} : \E b \in {Rank'} : LexLess(a, b)]_vars

\* the search of solve has ended with "no solution" for an inconsistent
\* partial board, after it assigned values and reset them
C18_Witness ==
    /\ pc = "no_solution"
    /\ ~InputConsistent
    /\ writes >= 2

\* the cell values the search started from
StartBoard == IF InSolve THEN before ELSE EmptyBoard

\* the place of the i-th field of the grid in the traversal, x in the outer
\* loop and y in the inner
Trav(i) == Size * heap[grid[i]].x + heap[grid[i]].y

\* the cells that were empty at the start and hold a value now
Assigned == {i \in 1..Len(grid) : StartBoard[i] = 0 /\ heap[grid[i]].value # 0}

\* the frames whose field holds a trial value
Holding == {j \in 1..Len(stack) : heap[stack[j].field].value # 0}

\* the place in the traversal of the cell the j-th frame branches on
FramePlace(j) == Size * stack[j].x + stack[j].y

\* C19: the frames branch on the cells that were empty at the start, one
\* after the other in traversal order and none left out: the first frame on
\* the first of them, every other frame on the first of them behind the cell
\* of the frame before it; the cells the search has assigned are the fields
\* of the frames that hold a trial value, as many as there are such frames,
\* and no cell that was empty at the start and is empty now comes before one
\* of them.
C19_FirstEmptyCells ==
    InSearch =>
        \E A \in {Assigned} : \E H \in {Holding} : \E start \in {StartBoard} :
            /\ \A j \in 1..Len(stack) :
                   /\ heap[stack[j].field].x = stack[j].x
                   /\ heap[stack[j].field].y = stack[j].y
                   /\ start[FrameCell(j)] = 0
                   /\ \A i \in 1..Len(grid) :
                          (/\ Trav(i) < FramePlace(j)
                           /\ j > 1 => Trav(i) > FramePlace(j - 1)) => start[i] # 0
                   /\ j > 1 => FramePlace(j - 1) < FramePlace(j)
            /\ A = {FrameCell(j) : j \in H}
            /\ Cardinality(A) = Cardinality(H)
            /\ H = 1..Cardinality(H)
            /\ \A i2 \in 1..Len(grid) :
                   (start[i2] = 0 /\ i2 \notin A) => \A i \in A : Trav(i) < Trav(i2)

\* the search of solve, started from a board with filled cells before and
\* between its empty cells, has three frames, two of which hold a trial value
C19_Witness ==
    /\ pc = "backtrack_loop"
    /\ Len(stack) = 3
    /\ Cardinality(Holding) = 2
    /\ before[1] # 0
    /\ \E i \in 1..Cells : before[i] # 0 /\ Trav(FrameCell(1)) < Trav(i) /\ Trav(i) < Trav(FrameCell(3))

\* the list p up to its last value that is at most c
UpTo(p, c) == SelectSeq(p, LAMBDA v : v <= c)

\* possible_values for the field of the top frame on the board that frame
\* was entered with
EntryPossibles ==
    possible_values(board_fields(entered[Len(entered)].board),
                    [i \in 1..Cells |-> i], Top.x, Top.y)

\* p holds the values of q, each once, in some order
IsPermutation(p, q) ==
    /\ Len(p) = Len(q)
    /\ \A i \in 1..Len(q) : Cardinality({j \in 1..Len(p) : p[j] = q[i]}) = 1

\* C20: the values a frame of __backtrack has assigned, tested one by one
\* with can_be_at as the loop reached them, are the possible values of its
\* field on the board the frame was entered with, in ascending order, up to
\* the value the loop has reached; the values a frame of __fill_grid has
\* assigned are the first of its list, which holds those same possible
\* values in the order drawn. The two searches differ in that order only.
C20_SameEngine ==
    (InSearch /\ stack # << >>) =>
        \E possibles \in {EntryPossibles} :
            IF InSolve
            THEN entered[Len(entered)].tried = UpTo(possibles, Top.value)
            ELSE /\ entered[Len(entered)].tried = SubSeq(Top.possibles, 1, Top.i)
                 /\ IsPermutation(Top.possibles, possibles)

\* a frame of __backtrack below the top of the search has finished its
\* loop, after it assigned each of several possible values and reset its
\* field, and after can_be_at refused other values
C20_Witness ==
    /\ pc = "backtrack_loop"
    /\ Len(stack) >= 2
    /\ Top.value = MaxValue
    /\ Len(entered[Len(entered)].tried) >= 2
    /\ entered[Len(entered)].tried = EntryPossibles

-----------------------------------------------------------------------------
(* The search: C21 .. C24 *)

\* the calls of __backtrack or __fill_grid that have been entered and have
\* not returned: those with a frame, and the one that is at its entry or has
\* raised at it, which has found no field and so has no frame
ActiveCalls ==
    Len(stack) +
    (IF pc \in {"backtrack", "fill_grid", "solution_found", "grid_generated"}
     THEN 1 ELSE 0)

\* the depth of the recursion: the active calls below the one that solve or
\* generate has made
Depth == IF ActiveCalls = 0 THEN 0 ELSE ActiveCalls - 1

\* the number of cells the starting board has empty
StartEmpty == Cardinality({i \in 1..Cells : StartBoard[i] = 0})

\* C21 (amended): in every state of a search the depth of the recursion is
\* at most the number of empty cells of the starting board, hence at most
\* 81; it equals the number of cells that hold a trial value whenever a call
\* is at its entry, between the iterations of its loop or has raised, and is
\* one less than that number when a call has returned and its caller has not
\* yet reset its field.
C21_RecursionDepth ==
    InSearch =>
        \E trials \in {Cardinality(Assigned)} :
            /\ Depth <= StartEmpty
            /\ Depth <= Cells
            /\ trials = Depth + (IF pc \in {"backtrack_undo", "fill_grid_undo"} THEN 1 ELSE 0)

\* a call of __backtrack below the top one has returned and its caller is
\* about to reset its field: the cells with a trial value are one more than
\* the depth
C21_Witness ==
    /\ pc = "backtrack_undo"
    /\ Len(stack) >= 2
    /\ Depth = Len(stack) - 1
    /\ Cardinality(Assigned) = Len(stack)

\* the recursion of solve is as deep as the starting board has empty cells
C21_Deepest ==
    /\ pc = "solution_found"
    /\ StartEmpty >= 3
    /\ Depth = StartEmpty

\* C21 as stated: in every state of a search the depth equals the number of
\* cells that hold a trial value
C21_Original ==
    InSearch => (Depth <= StartEmpty /\ Cardinality(Assigned) = Depth)

\* the i-th field of the grid lies in the small square of the cell (x, y)
InSquareOf(i, x, y) ==
    /\ heap[grid[i]].x \div Box = x \div Box
    /\ heap[grid[i]].y \div Box = y \div Box

\* C22: can_be_in_small_square(value, x, y) is true exactly when no cell of
\* the small square of (x, y) other than the cell (x, y) itself holds the
\* value.
C22_SmallSquare ==
    pc = "can_be_in_small_square_done" =>
        (result <=>
            \A i \in 1..Len(grid) :
                (/\ InSquareOf(i, args.x, args.y)
                 /\ ~(heap[grid[i]].x = args.x /\ heap[grid[i]].y = args.y))
                => heap[grid[i]].value # args.value)

\* what the filter `field.y != y and field.x != x` leaves to compare:
\* can_be_in_small_square is true exactly when no cell of the small square
\* in another row and another column than (x, y) holds the value
C22_OtherRowsAndColumns ==
    pc = "can_be_in_small_square_done" =>
        (result <=>
            \A i \in 1..Len(grid) :
                (/\ InSquareOf(i, args.x, args.y)
                 /\ heap[grid[i]].x # args.x
                 /\ heap[grid[i]].y # args.y)
                => heap[grid[i]].value # args.value)

\* can_be_in_small_square has returned True for a value that a cell of the
\* small square in the row of the probed cell holds
C22_SameRowIgnored ==
    /\ pc = "can_be_in_small_square_done"
    /\ result
    /\ \E i \in 1..Len(grid) :
           /\ InSquareOf(i, args.x, args.y)
           /\ heap[grid[i]].y = args.y
           /\ heap[grid[i]].x # args.x
           /\ heap[grid[i]].value = args.value

\* the place in the traversal (x outer, y inner) of the i-th field of the
\* board handed to solve
TravIn(i) == Size * heap[emptied[i]].x + heap[emptied[i]].y

\* the board start with the cells that are empty in it and come before the
\* i-th in the traversal filled as in s, and the i-th holding v
Prefix(start, s, i, v) ==
    [j \in 1..Len(start) |->
        IF start[j] # 0 THEN start[j]
        ELSE IF j = i THEN v
        ELSE IF TravIn(j) < TravIn(i) THEN s[j] ELSE 0]

\* s is a valid completion of start: complete, consistent and equal to start
\* in the cells start has filled
ValidCompletion(start, s) ==
    /\ Len(s) = Len(start)
    /\ Complete(s)
    /\ Consistent(heap, emptied, s)
    /\ \A i \in 1..Len(start) : start[i] # 0 => s[i] = start[i]

\* s is the least valid completion of start in the lexicographic order of
\* the cells empty in start, read in traversal order: no valid completion
\* equals s in the empty cells before some empty cell and holds a lower
\* value there (a value that does not fit the cell has no valid completion)
LeastCompletion(start, s) ==
    /\ ValidCompletion(start, s)
    /\ \A i \in 1..Len(start) :
           start[i] = 0 =>
               \A v \in 1..(s[i] - 1) :
                   \E p \in {Prefix(start, s, i, 0)} :
                       Fits(heap, emptied, p, i, v) =>
                           ~Completable(heap, emptied, [p EXCEPT ![i] = v])

\* C23: for every consistent solvable board, the board solve returns is the
\* least valid completion of the board in the lexicographic order of the
\* values of the originally-empty cells read in traversal order; the board
\* returned is so determined by the cell values of the board handed in.
C23_LeastCompletion ==
    (SolveFinished /\ InputConsistent /\ Completable(heap, emptied, before)) =>
        /\ pc = "solved"
        /\ \A i \in 1..Cells :
               /\ heap[solved[i]].x = heap[emptied[i]].x
               /\ heap[solved[i]].y = heap[emptied[i]].y
        /\ LeastCompletion(before, values_of(heap, solved))

\* solve has returned a board for a consistent partial board that has two
\* valid completions, BaseBoard and SwappedBoard: the one with the lower
\* value in the first of the empty cells in which they differ
C23_Witness ==
    /\ pc = "solved"
    /\ InputConsistent
    /\ \E i \in 1..Cells : before[i] # 0
    /\ ValidCompletion(before, BaseBoard)
    /\ ValidCompletion(before, SwappedBoard)
    /\ values_of(heap, solved) = BaseBoard
    /\ \E i \in 1..Cells :
           /\ before[i] = 0
           /\ BaseBoard[i] < SwappedBoard[i]
           /\ \A j \in 1..Cells :
                  (before[j] = 0 /\ TravIn(j) < TravIn(i)) => BaseBoard[j] = SwappedBoard[j]

\* solve has returned a board for the all-empty board, of which BaseBoard is
\* a valid completion that comes later in the order
C23_EmptyBoardLeast ==
    /\ pc = "solved"
    /\ before = EmptyBoard
    /\ ValidCompletion(before, BaseBoard)
    /\ \E i \in 1..Cells :
           /\ heap[solved[i]].value < BaseBoard[i]
           /\ \A j \in 1..Cells :
                  TravIn(j) < TravIn(i) => heap[solved[j]].value = BaseBoard[j]

\* C24: from the call of __backtrack on, in every state of solve and on the
\* board solve returns, every cell that was filled in the input board holds
\* its input value, on the working board as on the caller's, whether the
\* input was consistent or not; the fields keep their coordinates.
C24_FilledCellsKept ==
    InSolve =>
        \A i \in 1..Cells :
            /\ heap[grid[i]].x = heap[emptied[i]].x
            /\ heap[grid[i]].y = heap[emptied[i]].y
            /\ before[i] # 0 =>
                   /\ heap[grid[i]].value = before[i]
                   /\ heap[emptied[i]].value = before[i]
                   /\ pc = "solved" => heap[solved[i]].value = before[i]

\* solve has returned a board for an inconsistent partial board after the
\* search assigned values to several empty cells
C24_Witness ==
    /\ pc = "solved"
    /\ ~InputConsistent
    /\ \E i \in 1..Cells : before[i] # 0
    /\ Cardinality({i \in 1..Cells : before[i] = 0}) >= 2
    /\ writes >= 2
    /\ \A i \in 1..Cells : before[i] # 0 => heap[solved[i]].value = before[i]

\* the search of solve is under way on a consistent partial board, with
\* several cells holding trial values
C24_MidSearch ==
    /\ pc = "backtrack_undo"
    /\ InputConsistent
    /\ Len(stack) >= 2
    /\ \E i \in 1..Cells : before[i] # 0

=============================================================================
